---- MODULE Spec2Model ----
(***************************************************************************)
(* A model of chumsky's execution engine as found in src/src/lib.rs and    *)
(* src/src/recovery.rs: Located::max / merge_alts, Parser::parse_recovery, *)
(* Parser::parse, the Recovery combinator (recover_with) and the           *)
(* SkipThenRetryUntil strategy.                                            *)
(*                                                                         *)
(* The wrapped parser `P: Parser<I, O>` is a type parameter of the code.   *)
(* It is modelled as an input: each invocation at cursor position p draws  *)
(* one outcome from ParserOutcomes(input, p): the tokens it consumed, the  *)
(* recovered diagnostics it emitted and either a success (output and       *)
(* optional alternative diagnostic) or a fatal diagnostic.  A parser may   *)
(* consume tokens before it fails; that is why Stream::try_parse exists.   *)
(*                                                                         *)
(* Option<T> is modelled as a sequence of length at most one.              *)
(***************************************************************************)
EXTENDS Integers, Sequences, FiniteSets, TLC

(* ------------------------------ bounds -------------------------------- *)

\* Longest input stream.
MaxLen == 4

\* Most tokens one invocation of the wrapped parser consumes.
MaxConsume == 2

\* Largest position of a Located drawn for Located::max.
MaxPos == 2

\* Token alphabet: "x" is an ordinary token, "s" a token used as sentinel.
Tokens == {"x", "s"}

\* Expected-items two competing diagnostics may carry.
ErrPool == {"e1", "e2"}

None == <<>>

Some(x) == <<x>>

Inputs == UNION {[1..n -> Tokens] : n \in 0..MaxLen}

(* --------------------------- Located errors --------------------------- *)

\* Located::at(at, error)
LocatedAt(at, error) == [at |-> at, error |-> error]

\* Error::merge(self, other): the error collaborator's merge, the union of
\* the "expected" sets of the two diagnostics.
ErrorMerge(e1, e2) == e1 \cup e2

\* Located::max with the Less arm returning self.
LocatedMaxKeepSelf(self, other) ==
    IF other = None THEN self
    ELSE LET o == other[1] IN
         IF self.at > o.at THEN self
         ELSE IF self.at < o.at THEN self
         ELSE [self EXCEPT !.error = ErrorMerge(self.error, o.error)]

\* Located::max with the Equal arm dropping other's error.
LocatedMaxNoMerge(self, other) ==
    IF other = None THEN self
    ELSE LET o == other[1] IN
         IF self.at > o.at THEN self
         ELSE IF self.at < o.at THEN o
         ELSE self

\* Located::max(self, other: impl Into<Option<Self>>)
LocatedMax(self, other) ==
    IF other = None THEN self
    ELSE LET o == other[1] IN
         IF self.at > o.at THEN self
         ELSE IF self.at < o.at THEN o
         ELSE [self EXCEPT !.error = ErrorMerge(self.error, o.error)]

\* merge_alts(a, b)
MergeAlts(a, b) ==
    IF a # None /\ b # None THEN Some(LocatedMax(a[1], b))
    ELSE IF a # None THEN a ELSE b

(* ------------------------------ outcomes ------------------------------ *)

\* PResult: (Vec<Located>, Result<(O, Option<Located>), Located>)
POk(errs, out, alt) ==
    [errs |-> errs, ok |-> TRUE, out |-> Some(out), alt |-> alt, err |-> None]

PErr(errs, err) ==
    [errs |-> errs, ok |-> FALSE, out |-> None, alt |-> None, err |-> Some(err)]

\* No PResult has been produced yet.
NoResult == [errs |-> <<>>, ok |-> FALSE, out |-> None, alt |-> None, err |-> None]

\* Recovered diagnostics a parser invoked at p and stopping at e may emit.
RecsAt(p, e) == {<<>>, <<LocatedAt(p, {<<"rec", p>>})>>}

\* Alternative diagnostics a successful parse from p to e may carry.
AltsAt(p, e) == {None, Some(LocatedAt(e, {<<"alt", p>>}))}

\* Successes of the wrapped parser from p to e; the output is the segment.
SuccessesAt(p, e) ==
    {[r |-> POk(errs, [from |-> p, to |-> e], alt), end |-> e] :
        errs \in RecsAt(p, e), alt \in AltsAt(p, e)}

\* Fatal failures of the wrapped parser started at p with the cursor left at
\* e; the diagnostic is located at the start or where the parser stopped.
FailuresAt(p, e) ==
    {[r |-> PErr(errs, LocatedAt(at, {<<"fatal", p>>})), end |-> e] :
        errs \in RecsAt(p, e), at \in {p, e}}

\* What one invocation of the wrapped parser (Parser::parse_inner of P) may
\* yield at position p: the PResult it returns and the cursor position `end`
\* it leaves the stream at.
ParserOutcomes(in, p) ==
    UNION {SuccessesAt(p, e) \cup FailuresAt(p, e) :
              e \in {e \in p..Len(in) : e - p <= MaxConsume}}

(* ------------------------------- stream ------------------------------- *)

\* Stream::next at offset c: the token there (None at end of input) and the
\* offset afterwards; the offset does not move at end of input.
StreamNext(in, c) ==
    IF c < Len(in) THEN [tok |-> Some(in[c + 1]), offset |-> c + 1]
    ELSE [tok |-> None, offset |-> c]

\* Stream::attempt(f): f ran from offset `pre` to `post` and asked to commit
\* or not; the offset afterwards.
StreamAttempt(pre, post, commit) == IF commit THEN post ELSE pre

\* Stream::try_parse(f): attempt that commits exactly when f's PResult is Ok.
StreamTryParse(pre, o) == StreamAttempt(pre, o.end, o.r.ok)

(* ------------------------------- state -------------------------------- *)

VARIABLES
    input,      \* the token stream being parsed
    strategy,   \* "none": the parser driven is P; "skip": P.recover_with(skip_then_retry_until(..));
                \* "nested": P.recover_with(nested_delimiters(..))
    sentinels,  \* SkipThenRetryUntil.0
    entry,      \* stream offset when the driven parser's parse_inner is entered
    cursor,     \* the stream's offset
    pc,         \* where the call tree stands
    first,      \* outcome of P's first attempt (PResult and end offset)
    a_errors,   \* recover's parameter: diagnostics recovered by the failed attempt
    a_err,      \* recover's parameter: the fatal diagnostic (an Option, None before recover)
    retry,      \* recover's local (errors, res) of the retry in progress, with its end offset
    retry_at,   \* offset at which the latest retry began
    skipped,    \* offsets of the tokens the strategy's loop consumed
    tried,      \* <<offset, ok>> of every retry of P made by the strategy
    sret,       \* the PResult recover returned
    res,        \* the PResult the driven parser's parse_inner returned
    pr,         \* what parse_recovery returned: (Option<O>, Vec<Error>)
    presult,    \* what parse returned: Ok(out), Err(errors) or the expect panic
    ma, mb,     \* two optional Located diagnostics handed to Located::max / merge_alts
    rab, rba,   \* Some(ma.max(mb)) and Some(mb.max(ma)) once computed
    ralt,       \* Some(merge_alts(ma, mb)) once computed
    others,     \* NestedDelimiters.2: the other delimiter pairs, <<open, close>> each
    balance,    \* NestedDelimiters::recover's local: opens minus closes consumed
    balance_others, \* its local: the same count for each pair of others
    starts,     \* its local: the spans of the opens still pending
    error,      \* its local: the diagnostic the scan manufactured (an Option)
    recovered,  \* its local: the value the scanning loop broke with
    parser,     \* which parser P is: any parser, or one of the named ones
    rep,        \* Repeated::parse_inner's frame when P' = P.repeated() is driven
    built,      \* the parser value handed to boxed(), as it was constructed
    direct,     \* that value while it is still owned unboxed (an Option)
    heap,       \* the Rc allocations: the value each holds and its strong count
    handles,    \* the BoxedParser values alive: the allocation each points to
    runs        \* the parses under way, each with a stream of its own

parseVars == <<input, strategy, sentinels, entry, cursor, pc, first, a_errors,
               a_err, retry, retry_at, skipped, tried, sret, res, pr, presult>>

maxVars == <<ma, mb, rab, rba, ralt>>

nestVars == <<others, balance, balance_others, starts, error, recovered>>

repVars == <<parser, rep>>

boxVars == <<built, direct, heap, handles, runs>>

extVars == <<nestVars, repVars, boxVars>>

vars == <<parseVars, maxVars, extVars>>

NoOutcome == [r |-> NoResult, end |-> 0]

NoPR == [out |-> None, errors |-> <<>>]

NoParse == [kind |-> "none", out |-> None, errors |-> <<>>]

\* The sentinel arrays a skip_then_retry_until strategy is built with: none,
\* one token, every token (the strategy treats all tokens alike, so {"x"}
\* behaves as {"s"} does on the input with the two tokens exchanged).
SentinelSets == {{}, {"s"}, Tokens}

\* Located diagnostics drawn for Located::max.
Locateds == {LocatedAt(at, e) : at \in 0..MaxPos, e \in (SUBSET ErrPool) \ {{}}}

MaxIdle ==
    /\ ma = None /\ mb = None /\ rab = None /\ rba = None /\ ralt = None

\* NestedDelimiters::recover has not run: its locals as lines 68-71 set them.
NestIdle ==
    /\ others = <<>> /\ balance = 0 /\ balance_others = <<>>
    /\ starts = <<>> /\ error = None /\ recovered = FALSE

\* Repeated::parse_inner's frame: whether the driven parser is a repetition,
\* whether it has returned, where it was entered, where the iteration under
\* way began, and its locals outputs, errors and alt.
NoRep == [on |-> FALSE, done |-> FALSE, start |-> 0, pre |-> 0,
          outputs |-> <<>>, errors |-> <<>>, alt |-> None]

\* P is an arbitrary parser and is not wrapped in a repetition.
RepIdle == parser = "any" /\ rep = NoRep

\* No parser has been boxed and no parse by reference is under way.
BoxIdle ==
    /\ built = None /\ direct = None /\ heap = <<>> /\ handles = <<>>
    /\ runs = <<>>

ExtIdle == NestIdle /\ RepIdle /\ BoxIdle

(* ------------------------- the parsers P ------------------------------ *)

DigitTokens == {"1", "2", "3", "4"}

\* The inputs of the digit-sequence grammar.
Scenario12a34 == <<"1", "2", "a", "3", "4">>

RepInputs == UNION {[1..n -> {"1", "a"}] : n \in 0..MaxLen}

DigitInputs == RepInputs \cup {Scenario12a34}

\* The stream offset after the longest run of digits that starts at p.
RECURSIVE DigitsEnd(_, _)
DigitsEnd(in, p) ==
    IF p < Len(in) /\ in[p + 1] \in DigitTokens THEN DigitsEnd(in, p + 1) ELSE p

\* The digit-sequence parser: one or more digits, the output being the
\* digits matched; on a non-digit or at end of input it fails with a
\* diagnostic at that offset, the rejected token consumed or not.
DigitsOutcomes(in, p) ==
    LET e == DigitsEnd(in, p) IN
    IF e > p
    THEN {[r |-> POk(<<>>, [from |-> p, to |-> e], None), end |-> e]}
    ELSE {[r |-> PErr(<<>>, LocatedAt(p, {<<"fatal", p>>})), end |-> c] :
             c \in {p, StreamNext(in, p).offset}}

\* An arbitrary parser that consumes at least one token whenever it succeeds.
AdvancingOutcomes(in, p) ==
    {o \in ParserOutcomes(in, p) : o.r.ok => o.end > p}

\* The outcomes of P::parse_inner entered at offset p.
Outcomes(in, p) ==
    CASE parser = "digits" -> DigitsOutcomes(in, p)
      [] parser = "advancing" -> AdvancingOutcomes(in, p)
      [] OTHER -> ParserOutcomes(in, p)

ParseIdle ==
    /\ input = <<>> /\ strategy = "none" /\ sentinels = {}
    /\ entry = 0 /\ cursor = 0 /\ pc = "idle"
    /\ first = NoOutcome /\ a_errors = <<>> /\ a_err = None
    /\ retry = NoOutcome /\ retry_at = 0 /\ skipped = {} /\ tried = {}
    /\ sret = NoResult /\ res = NoResult /\ pr = NoPR /\ presult = NoParse

\* A parser has been built and a stream handed to parse; the stream may
\* already stand at any offset when the parser's parse_inner is entered.
Init ==
    /\ input \in Inputs
    /\ strategy \in {"none", "skip"}
    /\ sentinels \in (IF strategy = "skip" THEN SentinelSets ELSE {{}})
    /\ entry \in 0..Len(input)
    /\ cursor = entry
    /\ pc = "start"
    /\ first = NoOutcome /\ a_errors = <<>> /\ a_err = None
    /\ retry = NoOutcome /\ retry_at = 0 /\ skipped = {} /\ tried = {}
    /\ sret = NoResult /\ res = NoResult /\ pr = NoPR /\ presult = NoParse
    /\ MaxIdle
    /\ ExtIdle

(* ------------------------ the parser driven --------------------------- *)

\* P::parse_inner driven directly (no recovery attached).
PlainParseInner ==
    /\ pc = "start" /\ strategy = "none"
    /\ \E o \in Outcomes(input, cursor) :
          /\ first' = o
          /\ cursor' = o.end
          /\ res' = o.r
    /\ pc' = "ret"
    /\ UNCHANGED <<input, strategy, sentinels, entry, a_errors, a_err, retry,
                   retry_at, skipped, tried, sret, pr, presult, maxVars, extVars>>

\* self.1.recover: where the strategy bound by recover_with starts.
LoopOf(strat) == IF strat = "skip" THEN "skip_loop" ELSE "nested_loop"

\* Recovery::parse_inner calling P directly, without Stream::try_parse.
RecoveryAttemptNoTry ==
    /\ pc = "start" /\ strategy # "none"
    /\ \E o \in Outcomes(input, cursor) :
          /\ first' = o
          /\ cursor' = o.end
          /\ IF o.r.ok
             THEN /\ res' = o.r /\ pc' = "ret"
                  /\ UNCHANGED <<a_errors, a_err>>
             ELSE /\ a_errors' = o.r.errs /\ a_err' = o.r.err
                  /\ pc' = LoopOf(strategy)
                  /\ UNCHANGED res
    /\ UNCHANGED <<input, strategy, sentinels, entry, retry, retry_at, skipped,
                   tried, sret, pr, presult, maxVars, extVars>>

\* Recovery::parse_inner handing every outcome with recovered diagnostics to
\* the strategy.
RecoveryAttemptEager ==
    /\ pc = "start" /\ strategy # "none"
    /\ \E o \in Outcomes(input, cursor) :
          /\ first' = o
          /\ cursor' = StreamTryParse(cursor, o)
          /\ IF o.r.ok /\ o.r.errs = <<>>
             THEN /\ res' = o.r /\ pc' = "ret"
                  /\ UNCHANGED <<a_errors, a_err>>
             ELSE /\ a_errors' = o.r.errs
                  /\ a_err' = IF o.r.ok THEN Some(o.r.errs[1]) ELSE o.r.err
                  /\ pc' = LoopOf(strategy)
                  /\ UNCHANGED res
    /\ UNCHANGED <<input, strategy, sentinels, entry, retry, retry_at, skipped,
                   tried, sret, pr, presult, maxVars, extVars>>

\* Recovery::parse_inner: stream.try_parse(|s| self.0.parse_inner(s)); the Ok
\* arm returns the outcome, the Err arm calls self.1.recover(a_errors, a_err,
\* &self.0, stream).
RecoveryAttempt ==
    /\ pc = "start" /\ strategy # "none"
    /\ \E o \in Outcomes(input, cursor) :
          /\ first' = o
          /\ cursor' = StreamTryParse(cursor, o)
          /\ IF o.r.ok
             THEN /\ res' = o.r /\ pc' = "ret"
                  /\ UNCHANGED <<a_errors, a_err>>
             ELSE /\ a_errors' = o.r.errs /\ a_err' = o.r.err
                  /\ pc' = LoopOf(strategy)
                  /\ UNCHANGED res
    /\ UNCHANGED <<input, strategy, sentinels, entry, retry, retry_at, skipped,
                   tried, sret, pr, presult, maxVars, extVars>>

(* ----------------------- SkipThenRetryUntil --------------------------- *)

\* The probe with end of input not treated as a reason to give up.
SkipGivesUpIgnoringEnd(in, c, sent) ==
    LET tok == StreamNext(in, c).tok
    IN  IF tok = None THEN FALSE ELSE tok[1] \in sent

\* The probe giving up at the end of input only, whatever the sentinels.
SkipGivesUpAtEndOnly(in, c, sent) == StreamNext(in, c).tok = None

\* The probe of the loop: stream.next().2.map_or(true, |tok| self.0.contains(&tok))
SkipGivesUp(in, c, sent) ==
    LET tok == StreamNext(in, c).tok
    IN  IF tok = None THEN TRUE ELSE tok[1] \in sent

\* The give-up value with the fatal diagnostic moved into the recovered list.
SkipFailureAppended(errs, err) == PErr(Append(errs, err), LocatedAt(cursor, {}))

\* break (a_errors, Err(a_err))
SkipFailure(errs, err) == PErr(errs, err)

\* The success value with a_err pushed in front of the retry's diagnostics.
SkipSuccessPushFront(o, err) ==
    POk(<<err>> \o o.r.errs, o.r.out[1], o.r.alt)

\* errors.push(a_err); break (errors, Ok(out))
SkipSuccess(o, err) ==
    POk(Append(o.r.errs, err), o.r.out[1], o.r.alt)

\* The loop's probe finds a sentinel or the end of input: the attempt rolls
\* back and recover breaks with the failure.
SkipGiveUp ==
    /\ pc = "skip_loop"
    /\ SkipGivesUp(input, cursor, sentinels)
    /\ cursor' = StreamAttempt(cursor, StreamNext(input, cursor).offset, FALSE)
    /\ sret' = SkipFailure(a_errors, a_err[1])
    /\ pc' = "strategy_ret"
    /\ UNCHANGED <<input, strategy, sentinels, entry, first, a_errors, a_err,
                   retry, retry_at, skipped, tried, res, pr, presult, maxVars, extVars>>

\* The loop's probe finds another token: the attempt commits, the token is
\* consumed.
SkipOne ==
    /\ pc = "skip_loop"
    /\ ~SkipGivesUp(input, cursor, sentinels)
    /\ cursor' = StreamAttempt(cursor, StreamNext(input, cursor).offset, TRUE)
    /\ skipped' = skipped \cup {cursor}
    /\ pc' = "skip_retry"
    /\ UNCHANGED <<input, strategy, sentinels, entry, first, a_errors, a_err,
                   retry, retry_at, tried, sret, res, pr, presult, maxVars, extVars>>

\* let (mut errors, res) = parser.parse_inner(stream): P runs again from the
\* cursor, on the stream itself; Ok breaks the loop, Err goes round again
\* (errors and res are dropped at the end of the iteration).
SkipRetry ==
    /\ pc = "skip_retry"
    /\ \E o \in Outcomes(input, cursor) :
          /\ retry_at' = cursor
          /\ tried' = tried \cup {<<cursor, o.r.ok>>}
          /\ cursor' = o.end
          /\ IF o.r.ok
             THEN /\ retry' = o
                  /\ sret' = SkipSuccess(o, a_err[1])
                  /\ pc' = "strategy_ret"
             ELSE /\ retry' = NoOutcome
                  /\ pc' = "skip_loop"
                  /\ UNCHANGED sret
    /\ UNCHANGED <<input, strategy, sentinels, entry, first, a_errors, a_err,
                   skipped, res, pr, presult, maxVars, extVars>>

\* Recovery::parse_inner, Err arm: the value of self.1.recover(..) is the
\* value of the match, hence of parse_inner.
RecoveryReturn ==
    /\ pc = "strategy_ret"
    /\ res' = sret
    /\ pc' = "ret"
    /\ UNCHANGED <<input, strategy, sentinels, entry, cursor, first, a_errors,
                   a_err, retry, retry_at, skipped, tried, sret, pr, presult,
                   maxVars, extVars>>

(* ------------------------- NestedDelimiters --------------------------- *)

\* NestedDelimiters.0 and .1: the delimiters recovery balances; the assert
\* of recover's first line demands that they differ.
Open == "("

Close == ")"

\* Tokens of the streams nested-delimiter recovery is run on; "[" and "]" are
\* ordinary tokens unless others names them as a pair.
NestTokens == {Open, Close, "[", "]"}

NestInputs == UNION {[1..n -> NestTokens] : n \in 0..MaxLen}

\* The arrays of other pairs a nested_delimiters strategy is built with.
OtherPairSets == {<<>>, << <<"[", "]">> >>}

\* Error::unclosed_delimiter(start, open, span, close, found): the
\* diagnostic's content names the span of the unclosed open.
UnclosedDelimiter(start, span, found) == {<<"unclosed", start>>}

\* Error::expected_input_found(span, Some(close), None)
ExpectedInputFound(span) == {<<"expected", span>>}

\* The value (self.3)() of the default factory: an output no parse yields.
DefaultOutput == [from |-> -1, to |-> -1]

\* The for loop over the other pairs (lines 78-83): the balances afterwards.
OthersAfter(t, prs, bo) ==
    [i \in 1..Len(prs) |->
        IF t = prs[i][1] THEN bo[i] + 1
        ELSE IF t = prs[i][2] THEN bo[i] - 1
        ELSE bo[i]]

\* Line 84 without the test on the primary balance.
ForeignCloseAnyBalance(t, prs, bo, bal) ==
    \E i \in 1..Len(prs) :
        /\ t # prs[i][1] /\ t = prs[i][2]
        /\ bo[i] - 1 < 0 /\ bal >= 1

\* Line 84: some pair's close drove its balance negative while the primary
\* balance is exactly 1.
ForeignClose(t, prs, bo, bal) ==
    \E i \in 1..Len(prs) :
        /\ t # prs[i][1] /\ t = prs[i][2]
        /\ bo[i] - 1 < 0 /\ bal = 1

\* The stopping rule with a balance of 0 after a delimiter taken as a failure.
NestedBreakZeroFails(delim, bal) ==
    IF delim
    THEN IF bal <= 0 THEN "false" ELSE "continue"
    ELSE IF bal = 0 THEN "false" ELSE "continue"

\* Lines 101-111 with a non-delimiter token at balance 0 skipped over.
NestedBreakOtherContinues(delim, bal) ==
    IF delim
    THEN IF bal = 0 THEN "true" ELSE IF bal < 0 THEN "false" ELSE "continue"
    ELSE "continue"

\* Lines 101-111 with the scan given up at the first token outside the
\* primary pair that follows a recorded foreign close.
NestedBreakAfterForeign(delim, bal) ==
    IF delim
    THEN IF bal = 0 THEN "true" ELSE IF bal < 0 THEN "false" ELSE "continue"
    ELSE IF bal = 0 \/ error # None THEN "false" ELSE "continue"

\* Lines 101-111: what the loop does once the token is handled; `delim` is
\* the value of the match (true for an open or a close).
NestedBreak(delim, bal) ==
    IF delim
    THEN IF bal = 0 THEN "true" ELSE IF bal < 0 THEN "false" ELSE "continue"
    ELSE IF bal = 0 THEN "false" ELSE "continue"

\* A pop that leaves the stack as it is.
PopNothing(stack) == stack

\* Vec::pop on the stack of open spans.
Pop(stack) == IF stack = <<>> THEN <<>> ELSE SubSeq(stack, 1, Len(stack) - 1)

\* Vec::last / the value Vec::pop returns, as an Option.
Last(stack) == IF stack = <<>> THEN None ELSE Some(stack[Len(stack)])

\* Line 75: the token is the open delimiter.
NestedOpen ==
    /\ pc = "nested_loop"
    /\ StreamNext(input, cursor).tok = Some(Open)
    /\ cursor' = StreamNext(input, cursor).offset
    /\ balance' = balance + 1
    /\ starts' = Append(starts, cursor)
    /\ LET b == NestedBreak(TRUE, balance') IN
          /\ pc' = IF b = "continue" THEN "nested_loop" ELSE "nested_after"
          /\ recovered' = (b = "true")
    /\ UNCHANGED <<input, strategy, sentinels, entry, first, a_errors, a_err,
                   retry, retry_at, skipped, tried, sret, res, pr, presult,
                   maxVars, others, balance_others, error, repVars, boxVars>>

\* Line 76: the token is the close delimiter.
NestedClose ==
    /\ pc = "nested_loop"
    /\ StreamNext(input, cursor).tok = Some(Close)
    /\ cursor' = StreamNext(input, cursor).offset
    /\ balance' = balance - 1
    /\ starts' = Pop(starts)
    /\ LET b == NestedBreak(TRUE, balance') IN
          /\ pc' = IF b = "continue" THEN "nested_loop" ELSE "nested_after"
          /\ recovered' = (b = "true")
    /\ UNCHANGED <<input, strategy, sentinels, entry, first, a_errors, a_err,
                   retry, retry_at, skipped, tried, sret, res, pr, presult,
                   maxVars, others, balance_others, error, repVars, boxVars>>

\* Lines 77-91: any other token; the other pairs' balances are updated and a
\* foreign close at primary balance 1 records the first unclosed-delimiter
\* diagnostic, popping the pending open (get_or_insert_with runs the closure
\* only while error is None; unwrap panics on an empty stack).
NestedOther ==
    /\ pc = "nested_loop"
    /\ StreamNext(input, cursor).tok \notin {None, Some(Open), Some(Close)}
    /\ LET t == StreamNext(input, cursor).tok[1]
           hit == ForeignClose(t, others, balance_others, balance) /\ error = None
       IN  /\ balance_others' = OthersAfter(t, others, balance_others)
           /\ IF hit /\ starts = <<>>
              THEN /\ pc' = "panic"
                   /\ UNCHANGED <<starts, error, recovered>>
              ELSE /\ error' = IF hit
                               THEN Some(LocatedAt(cursor,
                                        UnclosedDelimiter(Last(starts)[1], cursor, Some(t))))
                               ELSE error
                   /\ starts' = IF hit THEN Pop(starts) ELSE starts
                   /\ LET b == NestedBreak(FALSE, balance) IN
                         /\ pc' = IF b = "continue" THEN "nested_loop" ELSE "nested_after"
                         /\ recovered' = (b = "true")
    /\ cursor' = StreamNext(input, cursor).offset
    /\ UNCHANGED <<input, strategy, sentinels, entry, first, a_errors, a_err,
                   retry, retry_at, skipped, tried, sret, res, pr, presult,
                   maxVars, others, balance, repVars, boxVars>>

\* Lines 92-100 with the diagnostic recorded at any positive balance.
NestedEndAnyBalance ==
    /\ pc = "nested_loop"
    /\ StreamNext(input, cursor).tok = None
    /\ cursor' = StreamNext(input, cursor).offset
    /\ LET hit == balance > 0 /\ error = None IN
          /\ error' = IF ~hit THEN error
                      ELSE IF starts # <<>>
                      THEN Some(LocatedAt(cursor,
                               UnclosedDelimiter(Last(starts)[1], cursor, None)))
                      ELSE Some(LocatedAt(cursor, ExpectedInputFound(cursor)))
          /\ starts' = IF hit THEN Pop(starts) ELSE starts
    /\ recovered' = FALSE
    /\ pc' = "nested_after"
    /\ UNCHANGED <<input, strategy, sentinels, entry, first, a_errors, a_err,
                   retry, retry_at, skipped, tried, sret, res, pr, presult,
                   maxVars, others, balance, balance_others, repVars, boxVars>>

\* Lines 92-100: end of input; at primary balance 1 a diagnostic is recorded
\* unless one was already, and the loop breaks with false.
NestedEnd ==
    /\ pc = "nested_loop"
    /\ StreamNext(input, cursor).tok = None
    /\ cursor' = StreamNext(input, cursor).offset
    /\ LET hit == balance > 0 /\ balance = 1 /\ error = None IN
          /\ error' = IF ~hit THEN error
                      ELSE IF starts # <<>>
                      THEN Some(LocatedAt(cursor,
                               UnclosedDelimiter(Last(starts)[1], cursor, None)))
                      ELSE Some(LocatedAt(cursor, ExpectedInputFound(cursor)))
          /\ starts' = IF hit THEN Pop(starts) ELSE starts
    /\ recovered' = FALSE
    /\ pc' = "nested_after"
    /\ UNCHANGED <<input, strategy, sentinels, entry, first, a_errors, a_err,
                   retry, retry_at, skipped, tried, sret, res, pr, presult,
                   maxVars, others, balance, balance_others, repVars, boxVars>>

\* Line 114: if let Some(e) = error { a_errors.push(e); }
WithScanError(errs, e) == IF e = None THEN errs ELSE Append(errs, e[1])

\* Lines 116-123 with the fatal diagnostic always appended on success.
NestedResultAlwaysPush(errs, err, e, rec) ==
    IF rec THEN POk(Append(WithScanError(errs, e), err), DefaultOutput, None)
    ELSE PErr(WithScanError(errs, e), err)

\* Lines 116-123 with the output of the failure arm taken from a success.
NestedResultFailureAsDefault(errs, err, e, rec) ==
    LET all == WithScanError(errs, e) IN
    IF rec
    THEN POk(IF Last(all) = None \/ err.at < Last(all)[1].at
             THEN Append(all, err) ELSE all,
             DefaultOutput, None)
    ELSE PErr(all, LocatedAt(cursor, err.error))

\* Lines 116-123 with the fatal diagnostic never appended.
NestedResultNeverPush(errs, err, e, rec) ==
    IF rec THEN POk(WithScanError(errs, e), DefaultOutput, None)
    ELSE PErr(WithScanError(errs, e), err)

\* Lines 114-123: the PResult recover returns.
NestedResult(errs, err, e, rec) ==
    LET all == WithScanError(errs, e) IN
    IF rec
    THEN POk(IF Last(all) = None \/ err.at < Last(all)[1].at
             THEN Append(all, err) ELSE all,
             DefaultOutput, None)
    ELSE PErr(all, err)

\* Lines 114-123: the loop has broken; recover returns.
NestedFinish ==
    /\ pc = "nested_after"
    /\ sret' = NestedResult(a_errors, a_err[1], error, recovered)
    /\ pc' = "strategy_ret"
    /\ UNCHANGED <<input, strategy, sentinels, entry, cursor, first, a_errors,
                   a_err, retry, retry_at, skipped, tried, res, pr, presult,
                   maxVars, extVars>>

(* ---------------------- parse_recovery and parse ---------------------- *)

\* errors.into_iter().map(|e| e.error).collect()
ErrorsOf(errs) == [i \in 1..Len(errs) |-> errs[i].error]

\* parse_recovery with the fatal diagnostic put first.
ParseRecoveryResultFatalFirst(r) ==
    IF r.ok THEN [out |-> r.out, errors |-> ErrorsOf(r.errs)]
    ELSE [out |-> None, errors |-> ErrorsOf(<<r.err[1]>> \o r.errs)]

\* parse_recovery with the fatal diagnostic left out of the list.
ParseRecoveryResultDropFatal(r) ==
    IF r.ok THEN [out |-> r.out, errors |-> ErrorsOf(r.errs)]
    ELSE [out |-> None, errors |-> ErrorsOf(r.errs)]

\* The body of Parser::parse_recovery applied to parse_inner's PResult.
ParseRecoveryResult(r) ==
    IF r.ok THEN [out |-> r.out, errors |-> ErrorsOf(r.errs)]
    ELSE [out |-> None, errors |-> ErrorsOf(Append(r.errs, r.err[1]))]

\* parse returning whatever output there is.
ParseResultKeepOutput(p) ==
    IF p.out # None THEN [kind |-> "ok", out |-> p.out, errors |-> <<>>]
    ELSE [kind |-> "err", out |-> None, errors |-> p.errors]

\* The body of Parser::parse applied to parse_recovery's pair; `expect`
\* panics on an absent output.
ParseResult(p) ==
    IF p.errors = <<>>
    THEN IF p.out # None
         THEN [kind |-> "ok", out |-> p.out, errors |-> <<>>]
         ELSE [kind |-> "panic", out |-> None, errors |-> <<>>]
    ELSE [kind |-> "err", out |-> None, errors |-> p.errors]

\* Parser::parse_recovery after parse_inner returned.
ParseRecovery ==
    /\ pc = "ret" /\ (rep.on => rep.done)
    /\ pr' = ParseRecoveryResult(res)
    /\ pc' = "pr_done"
    /\ UNCHANGED <<input, strategy, sentinels, entry, cursor, first, a_errors,
                   a_err, retry, retry_at, skipped, tried, sret, res, presult,
                   maxVars, extVars>>

\* Parser::parse after parse_recovery returned.
Parse ==
    /\ pc = "pr_done"
    /\ presult' = ParseResult(pr)
    /\ pc' = "done"
    /\ UNCHANGED <<input, strategy, sentinels, entry, cursor, first, a_errors,
                   a_err, retry, retry_at, skipped, tried, sret, res, pr,
                   maxVars, extVars>>

Next ==
    \/ PlainParseInner
    \/ RecoveryAttempt
    \/ SkipGiveUp
    \/ SkipOne
    \/ SkipRetry
    \/ RecoveryReturn
    \/ ParseRecovery
    \/ Parse

Spec == Init /\ [][Next]_vars

\* parse is a plain synchronous call tree: a step that can be taken is taken.
LiveSpec == Spec /\ WF_vars(Next)

(* --------------- recover_with(nested_delimiters(..)) ------------------ *)

\* A parser P.recover_with(nested_delimiters(Open, Close, others, default))
\* has been built and a stream handed to parse.
InitNested ==
    /\ input \in NestInputs
    /\ strategy = "nested"
    /\ sentinels = {}
    /\ entry \in 0..Len(input)
    /\ cursor = entry
    /\ pc = "start"
    /\ first = NoOutcome /\ a_errors = <<>> /\ a_err = None
    /\ retry = NoOutcome /\ retry_at = 0 /\ skipped = {} /\ tried = {}
    /\ sret = NoResult /\ res = NoResult /\ pr = NoPR /\ presult = NoParse
    /\ MaxIdle
    /\ others \in OtherPairSets
    /\ balance = 0 /\ balance_others = [i \in 1..Len(others) |-> 0]
    /\ starts = <<>> /\ error = None /\ recovered = FALSE
    /\ RepIdle
    /\ BoxIdle

NextNested ==
    \/ RecoveryAttempt
    \/ NestedOpen
    \/ NestedClose
    \/ NestedOther
    \/ NestedEnd
    \/ NestedFinish
    \/ RecoveryReturn
    \/ ParseRecovery
    \/ Parse

SpecNested == InitNested /\ [][NextNested]_vars

(* ------------- parse over every parser built in this file ------------- *)

\* The driven parser is P alone or P.recover_with(..) of either strategy.
InitAll == Init \/ InitNested

NextAll ==
    \/ PlainParseInner
    \/ RecoveryAttempt
    \/ SkipGiveUp
    \/ SkipOne
    \/ SkipRetry
    \/ NestedOpen
    \/ NestedClose
    \/ NestedOther
    \/ NestedEnd
    \/ NestedFinish
    \/ RecoveryReturn
    \/ ParseRecovery
    \/ Parse

SpecAll == InitAll /\ [][NextAll]_vars

(* ------------------------------ Repeated ------------------------------ *)

\* Repeated::parse_inner, top of the loop: stream.attempt opens and the
\* sub-parser's parse_inner is entered with a frame of its own.
RepIterate ==
    /\ pc = "rep_loop" /\ rep.on
    /\ rep' = [rep EXCEPT !.pre = cursor]
    /\ entry' = cursor
    /\ first' = NoOutcome /\ a_errors' = <<>> /\ a_err' = None
    /\ retry' = NoOutcome /\ retry_at' = 0 /\ skipped' = {} /\ tried' = {}
    /\ sret' = NoResult /\ res' = NoResult
    /\ pc' = "start"
    /\ UNCHANGED <<input, strategy, sentinels, cursor, pr, presult, maxVars,
                   nestVars, parser, boxVars>>

\* The iteration's end with the failing iteration's tokens left consumed.
RepCollectNoRollback ==
    /\ pc = "ret" /\ rep.on /\ ~rep.done
    /\ IF res.ok
       THEN /\ rep' = [rep EXCEPT !.errors = @ \o res.errs,
                                  !.alt = MergeAlts(@, res.alt),
                                  !.outputs = Append(@, res.out[1])]
            /\ pc' = "rep_loop"
            /\ UNCHANGED res
       ELSE /\ rep' = [rep EXCEPT !.done = TRUE]
            /\ res' = POk(rep.errors, rep.outputs, MergeAlts(rep.alt, res.err))
            /\ pc' = "ret"
    /\ UNCHANGED <<input, strategy, sentinels, entry, cursor, first, a_errors,
                   a_err, retry, retry_at, skipped, tried, sret, pr, presult,
                   maxVars, nestVars, parser, boxVars>>

\* Repeated::parse_inner, the iteration's end: a success is committed, its
\* diagnostics, alternative and output are accumulated and the loop goes
\* on; a failure is rolled back by stream.attempt and the loop breaks with
\* Ok((outputs, merge_alts(alt, Some(a_err)))).
RepCollect ==
    /\ pc = "ret" /\ rep.on /\ ~rep.done
    /\ IF res.ok
       THEN /\ rep' = [rep EXCEPT !.errors = @ \o res.errs,
                                  !.alt = MergeAlts(@, res.alt),
                                  !.outputs = Append(@, res.out[1])]
            /\ cursor' = StreamAttempt(rep.pre, cursor, TRUE)
            /\ pc' = "rep_loop"
            /\ UNCHANGED res
       ELSE /\ rep' = [rep EXCEPT !.done = TRUE]
            /\ cursor' = StreamAttempt(rep.pre, cursor, FALSE)
            /\ res' = POk(rep.errors, rep.outputs, MergeAlts(rep.alt, res.err))
            /\ pc' = "ret"
    /\ UNCHANGED <<input, strategy, sentinels, entry, first, a_errors, a_err,
                   retry, retry_at, skipped, tried, sret, pr, presult, maxVars,
                   nestVars, parser, boxVars>>

\* The sentinel arrays of the digit-sequence grammar's recovery.
DigitSentinelSets == {{}, {"a"}}

\* P.repeated() or P.recover_with(skip_then_retry_until(..)).repeated() has
\* been built, P being the digit-sequence parser or any parser that consumes
\* when it succeeds, and a fresh stream handed to parse.
InitRep ==
    /\ parser \in {"advancing", "digits"}
    /\ input \in (IF parser = "digits" THEN DigitInputs ELSE RepInputs)
    /\ strategy \in (IF parser = "digits" THEN {"none", "skip"} ELSE {"none"})
    /\ sentinels \in (IF strategy = "skip" THEN DigitSentinelSets ELSE {{}})
    /\ entry = 0
    /\ cursor = entry
    /\ pc = "rep_loop"
    /\ rep = [NoRep EXCEPT !.on = TRUE, !.start = entry, !.pre = entry]
    /\ first = NoOutcome /\ a_errors = <<>> /\ a_err = None
    /\ retry = NoOutcome /\ retry_at = 0 /\ skipped = {} /\ tried = {}
    /\ sret = NoResult /\ res = NoResult /\ pr = NoPR /\ presult = NoParse
    /\ MaxIdle
    /\ NestIdle
    /\ BoxIdle

NextRep ==
    \/ RepIterate
    \/ PlainParseInner
    \/ RecoveryAttempt
    \/ SkipGiveUp
    \/ SkipOne
    \/ SkipRetry
    \/ RecoveryReturn
    \/ RepCollect
    \/ ParseRecovery
    \/ Parse

SpecRep == InitRep /\ [][NextRep]_vars

\* Repeated::parse_inner is a plain loop: a step that can be taken is taken.
LiveSpecRep == SpecRep /\ WF_vars(NextRep)

(* ---------------------- boxed() and BoxedParser ----------------------- *)

MaxWant == 2

MaxBoxLen == 2

MaxHandles == 2

RunIds == {1, 2}

\* The parser values T handed to boxed(): match `want` tokens in a row,
\* each one of `accept`, by one Stream::next per token.
ParserValues ==
    {[accept |-> a, want |-> w] : a \in {{"1"}, {"1", "a"}}, w \in 1..MaxWant}

BoxInputs == UNION {[1..n -> {"1", "a"}] : n \in 0..MaxBoxLen}

\* A parse that has not been started.
IdleRun == [via |-> 0, input |-> <<>>, cursor |-> 0, count |-> 0,
            pc |-> "idle", res |-> NoResult, overlapped |-> FALSE]

\* T::parse_inner(&self, stream), one Stream::next further: an accepted
\* token is counted and the parser returns Ok once it has `want` of them; a
\* rejected token or the end of input makes it return Err at that offset.
StepOf(p, run) ==
    LET n == StreamNext(run.input, run.cursor) IN
    IF n.tok # None /\ n.tok[1] \in p.accept
    THEN IF run.count + 1 = p.want
         THEN [run EXCEPT !.cursor = n.offset, !.count = p.want, !.pc = "ret",
                          !.res = POk(<<>>, [from |-> 0, to |-> n.offset], None)]
         ELSE [run EXCEPT !.cursor = n.offset, !.count = @ + 1]
    ELSE [run EXCEPT !.cursor = n.offset, !.pc = "ret",
                     !.res = PErr(<<>>, LocatedAt(run.cursor,
                                                  {<<"fatal", run.cursor>>}))]

\* The parser a parse runs: *self for a parse through &T (via = 0), the
\* value inside the Rc for a parse through the BoxedParser number via.
ParserVia(via) ==
    IF via = 0 THEN direct[1] ELSE heap[handles[via]].value

\* Another parse has consumed input and has not returned yet.
OtherInProgress(r) ==
    \E q \in RunIds \ {r} : runs[q].pc = "scan" /\ runs[q].cursor > 0

\* Parser::boxed: BoxedParser(Rc::new(self)); self is moved into the
\* allocation, which no parse may be borrowing.
Boxed ==
    /\ direct # None
    /\ \A r \in RunIds : runs[r].pc # "scan"
    /\ heap' = <<[value |-> direct[1], strong |-> 1]>>
    /\ handles' = <<1>>
    /\ direct' = None
    /\ UNCHANGED <<built, runs, parseVars, maxVars, nestVars, repVars>>

\* Clone that builds a second allocation holding a copy of the parser.
CloneDeepCopy(h) ==
    /\ h \in 1..Len(handles) /\ Len(handles) < MaxHandles
    /\ heap' = Append(heap, [value |-> heap[handles[h]].value, strong |-> 1])
    /\ handles' = Append(handles, Len(heap) + 1)
    /\ UNCHANGED <<built, direct, runs, parseVars, maxVars, nestVars, repVars>>

\* BoxedParser::clone: Self(self.0.clone()), Rc::clone of the allocation.
Clone(h) ==
    /\ h \in 1..Len(handles) /\ Len(handles) < MaxHandles
    /\ handles' = Append(handles, handles[h])
    /\ heap' = [heap EXCEPT ![handles[h]].strong = @ + 1]
    /\ UNCHANGED <<built, direct, runs, parseVars, maxVars, nestVars, repVars>>

\* parse_inner is entered on a stream of its own, through &T or through a
\* BoxedParser.
RunStart(r, via, in) ==
    /\ runs[r].pc = "idle"
    /\ IF via = 0 THEN direct # None ELSE via \in 1..Len(handles)
    /\ runs' = [runs EXCEPT ![r] = [IdleRun EXCEPT !.via = via, !.input = in,
                                                   !.pc = "scan"]]
    /\ UNCHANGED <<built, direct, heap, handles, parseVars, maxVars, nestVars,
                   repVars>>

\* One step of a parse made on the stream of every parse under way.
RunStepSharedStream(r) ==
    /\ runs[r].pc = "scan"
    /\ LET after == StepOf(ParserVia(runs[r].via), runs[r]) IN
          runs' = [q \in RunIds |->
                      IF q = r THEN after
                      ELSE IF runs[q].pc = "scan"
                      THEN [runs[q] EXCEPT !.cursor = after.cursor]
                      ELSE runs[q]]
    /\ UNCHANGED <<built, direct, heap, handles, parseVars, maxVars, nestVars,
                   repVars>>

\* One step of a parse: <&T>::parse_inner calls T::parse_inner(*self, stream),
\* BoxedParser::parse_inner calls self.0.parse_inner(stream).
RunStep(r) ==
    /\ runs[r].pc = "scan"
    /\ LET after == StepOf(ParserVia(runs[r].via), runs[r]) IN
          runs' = [runs EXCEPT ![r] =
                      [after EXCEPT !.overlapped = @ \/ OtherInProgress(r)]]
    /\ UNCHANGED <<built, direct, heap, handles, parseVars, maxVars, nestVars,
                   repVars>>

\* A parser value has been built; nothing is boxed or parsed yet.
InitBoxed ==
    /\ ParseIdle /\ MaxIdle /\ NestIdle /\ RepIdle
    /\ built \in {Some(p) : p \in ParserValues}
    /\ direct = built
    /\ heap = <<>> /\ handles = <<>>
    /\ runs = [r \in RunIds |-> IdleRun]

NextBoxed ==
    \/ Boxed
    \/ \E h \in 1..MaxHandles : Clone(h)
    \/ \E r \in RunIds, via \in 0..MaxHandles, in \in BoxInputs :
          RunStart(r, via, in)
    \/ \E r \in RunIds : RunStep(r)

SpecBoxed == InitBoxed /\ [][NextBoxed]_vars

(* ------------------- Located::max and merge_alts ---------------------- *)

\* Two optional diagnostics of competing parse attempts.
InitMax ==
    /\ ParseIdle
    /\ ExtIdle
    /\ ma \in {None} \cup {Some(l) : l \in Locateds}
    /\ mb \in {None} \cup {Some(l) : l \in Locateds}
    /\ rab = None /\ rba = None /\ ralt = None

\* ma.max(mb): ma is the receiver.
MaxSelfOther ==
    /\ ma # None /\ rab = None
    /\ rab' = Some(LocatedMax(ma[1], mb))
    /\ UNCHANGED <<ma, mb, rba, ralt, parseVars, extVars>>

\* mb.max(ma): mb is the receiver.
MaxOtherSelf ==
    /\ mb # None /\ rba = None
    /\ rba' = Some(LocatedMax(mb[1], ma))
    /\ UNCHANGED <<ma, mb, rab, ralt, parseVars, extVars>>

\* merge_alts(ma, mb)
MergeAltsStep ==
    /\ ralt = None
    /\ ralt' = Some(MergeAlts(ma, mb))
    /\ UNCHANGED <<ma, mb, rab, rba, parseVars, extVars>>

NextMax ==
    \/ MaxSelfOther
    \/ MaxOtherSelf
    \/ MergeAltsStep

SpecMax == InitMax /\ [][NextMax]_vars

(* ------------------------------- claims ------------------------------- *)

\* parse_inner of the driven parser has returned.
Returned == pc \in {"ret", "pr_done", "done"}

\* The strategy's recover has been called (its parameter a_err is bound).
StrategyInvoked == a_err # None

\* The stream stands at the end of input or right before a sentinel.
AtSentinelOrEnd ==
    \/ cursor = Len(input)
    \/ cursor < Len(input) /\ input[cursor + 1] \in sentinels

\* C1: parse returns the output exactly when parse_recovery's diagnostic list
\* is empty; otherwise it returns exactly that list as the failure and no
\* output, even when parse_recovery did produce an output.
C1_ParseStrict ==
    pc = "done" =>
        /\ presult.kind = "ok" <=> pr.errors = <<>>
        /\ presult.kind = "ok" =>
              /\ presult.out # None
              /\ presult.out = pr.out
              /\ presult.out = res.out
        /\ pr.errors # <<>> =>
              /\ presult.kind = "err"
              /\ presult.errors = pr.errors
              /\ presult.out = None

\* C1 witness: an output produced through a successful recovery is discarded.
C1_Witness ==
    /\ pc = "done" /\ strategy = "skip" /\ StrategyInvoked
    /\ res.ok /\ pr.out # None
    /\ presult.kind = "err" /\ presult.errors # <<>>

\* C2: parse_recovery returns (Some(out), recovered diagnostics in order) on
\* success, the alternative diagnostic being dropped, and (None, recovered
\* diagnostics in order followed by the fatal diagnostic) on fatal failure.
C2_ParseRecoveryPair ==
    pc \in {"pr_done", "done"} =>
        LET n == Len(res.errs) IN
        /\ \A i \in 1..n : i <= Len(pr.errors) /\ pr.errors[i] = res.errs[i].error
        /\ res.ok =>
              /\ pr.out # None /\ pr.out = res.out
              /\ Len(pr.errors) = n
        /\ ~res.ok =>
              /\ pr.out = None
              /\ Len(pr.errors) = n + 1
              /\ pr.errors[n + 1] = res.err[1].error

\* C2 witness: a fatal failure after recovered diagnostics.
C2_Witness ==
    /\ pc = "pr_done" /\ ~res.ok /\ Len(res.errs) >= 1
    /\ res.errs[1].error # res.err[1].error

\* C3: for two diagnostics at different positions, max returns the one at the
\* greater position with its error untouched, whichever is the receiver.
C3_MaxKeepsFurthest ==
    (ma # None /\ mb # None /\ ma[1].at # mb[1].at) =>
        LET far == IF ma[1].at > mb[1].at THEN ma[1] ELSE mb[1] IN
        /\ rab # None => rab[1] = far
        /\ rba # None => rba[1] = far

\* C3 witness: the receiver is the nearer one, the errors differ, and both
\* orders have been computed.
C3_Witness ==
    /\ ma # None /\ mb # None /\ rab # None /\ rba # None
    /\ ma[1].at < mb[1].at
    /\ ma[1].error # mb[1].error

\* C4: for two diagnostics at the same position p, max returns a diagnostic
\* at p whose error is the merge of both errors, in either argument order.
C4_MaxMergesEqual ==
    (ma # None /\ mb # None /\ ma[1].at = mb[1].at) =>
        /\ rab # None =>
              /\ rab[1].at = ma[1].at
              /\ rab[1].error = ma[1].error \cup mb[1].error
        /\ rba # None =>
              /\ rba[1].at = ma[1].at
              /\ rba[1].error = ma[1].error \cup mb[1].error
        /\ (rab # None /\ rba # None) => rab = rba

\* C4 witness: same position, different errors, both orders computed.
C4_Witness ==
    /\ ma # None /\ mb # None /\ rab # None /\ rba # None
    /\ ma[1].at = mb[1].at
    /\ ma[1].error # mb[1].error
    /\ ~(ma[1].error \subseteq mb[1].error)
    /\ ~(mb[1].error \subseteq ma[1].error)

\* C5: recover_with calls its strategy only after a fatal failure of the
\* wrapped parser; on success the outcome and the cursor are the wrapped
\* parser's, on fatal failure the outcome is the one the strategy returned.
C5_StrategyOnlyOnFailure ==
    strategy = "skip" =>
        /\ StrategyInvoked => (first # NoOutcome /\ ~first.r.ok /\ a_err = first.r.err)
        /\ (Returned /\ first.r.ok) =>
              /\ ~StrategyInvoked
              /\ skipped = {} /\ tried = {} /\ sret = NoResult
              /\ res = first.r
              /\ cursor = first.end
        /\ (Returned /\ ~first.r.ok) =>
              /\ StrategyInvoked
              /\ sret # NoResult
              /\ res = sret

\* C5 witness: the wrapped parser succeeds with recovered diagnostics of its
\* own and recover_with returns.
C5_Witness ==
    /\ strategy = "skip" /\ pc = "ret"
    /\ first.r.ok /\ first.r.errs # <<>>
    /\ first.end > entry

\* C6: when recover is called, the cursor is where it was on entry to
\* recover_with, whatever the failed attempt consumed.
C6_RewoundAtRecover ==
    (pc = "skip_loop" /\ skipped = {}) => cursor = entry

\* C6 witness: recover is called after an attempt that consumed tokens.
C6_Witness ==
    /\ pc = "skip_loop" /\ skipped = {}
    /\ first.end > entry

\* C7: skip-then-retry-until recovery terminates: every pass through the loop
\* consumes a token and every run reaches the end of parse.
C7_SkipTerminates ==
    /\ <>(pc = "done")
    /\ [][(pc = "skip_loop" /\ pc' = "skip_retry") => cursor' > cursor]_vars

\* C7 witness: a run whose loop went round at least twice has ended.
C7_Witness ==
    /\ pc = "done" /\ strategy = "skip"
    /\ Cardinality(skipped) >= 2

\* C8: when a retry succeeds, recover returns that retry's output and
\* alternative diagnostic, and its recovered list is the retry's recovered
\* diagnostics followed by the original fatal diagnostic.
C8_SkipSuccessReportsFatal ==
    sret.ok =>
        /\ retry.r.ok
        /\ sret.out = retry.r.out
        /\ sret.alt = retry.r.alt
        /\ Len(sret.errs) = Len(retry.r.errs) + 1
        /\ sret.errs[Len(sret.errs)] = a_err[1]
        /\ sret.errs[Len(sret.errs)] = first.r.err[1]
        /\ \A i \in 1..Len(retry.r.errs) : sret.errs[i] = retry.r.errs[i]

\* C8 witness: a retry succeeds with a recovered diagnostic of its own and an
\* alternative diagnostic.
C8_Witness ==
    /\ pc = "strategy_ret" /\ sret.ok
    /\ retry.r.errs # <<>> /\ retry.r.alt # None

\* The state half of C9: a failure returned by recover carries a_err
\* unchanged and leaves the cursor at the end of input or right before a
\* sentinel.
C9_FailureState ==
    (sret # NoResult /\ ~sret.ok) =>
        /\ AtSentinelOrEnd
        /\ sret.err = a_err
        /\ sret.err = first.r.err

\* The step half of C9: at a loop check recover returns a failure exactly
\* when a sentinel or the end of input is next, and then nothing is consumed
\* and the wrapped parser is not run again.
C9_FailureStep ==
    pc = "skip_loop" =>
        /\ (pc' = "strategy_ret" /\ ~sret'.ok) <=> AtSentinelOrEnd
        /\ AtSentinelOrEnd =>
              /\ cursor' = cursor
              /\ tried' = tried /\ retry' = retry /\ retry_at' = retry_at

\* C9 as amended: skip-then-retry-until fails exactly when a loop check
\* finds a sentinel or the end of input; the failure is the original fatal
\* diagnostic, the sentinel is not consumed and the wrapped parser is not run
\* again at that check.
C9_SkipGivesUpAtSentinel == [](C9_FailureState) /\ [][C9_FailureStep]_vars

\* C9 as stated: as above, and no retry of the wrapped parser has begun at
\* the position where the cursor rests when the failure is returned.
C9_NeverRetriedThere ==
    (sret # NoResult /\ ~sret.ok) =>
        /\ AtSentinelOrEnd
        /\ sret.err = a_err
        /\ \A t \in tried : t[1] # cursor

\* C9 witness: recover gives up right before a sentinel after skipping.
C9_Witness ==
    /\ pc = "strategy_ret" /\ ~sret.ok
    /\ cursor < Len(input) /\ skipped # {}

\* The setting of C10: input X1 X2 S X3, sentinel S, recover_with entered at
\* X1, and a wrapped parser that fails wherever it was run except at S, where
\* it matches S alone.
C10_Scenario ==
    /\ input = <<"x", "x", "s", "x">> /\ sentinels = {"s"}
    /\ strategy = "skip" /\ entry = 0
    /\ StrategyInvoked
    /\ \A t \in tried : t[2] <=> t[1] = 2
    /\ retry.r.ok => (retry.end = retry_at + 1 /\ retry.r.errs = <<>>)

\* C10: in that setting recovery succeeds after exactly 2 skips, with exactly
\* 1 recovered diagnostic, and the cursor right after S.
C10_SkipBound ==
    (pc = "strategy_ret" /\ C10_Scenario) =>
        /\ sret.ok
        /\ Cardinality(skipped) = 2
        /\ Len(sret.errs) = 1
        /\ cursor = 3

(* ----------------- claims on nested-delimiter recovery ---------------- *)

\* Opens minus closes among the tokens at offsets p .. q-1 of the input.
DepthBetween(in, p, q) ==
    Cardinality({i \in (p + 1)..q : in[i] = Open})
        - Cardinality({i \in (p + 1)..q : in[i] = Close})

\* The offsets right after the close that matches an open standing at
\* offset p (empty when there is no open at p or it is never closed).
MatchEnds(in, p) ==
    {q \in (p + 1)..Len(in) :
        /\ in[p + 1] = Open
        /\ DepthBetween(in, p, q) = 0
        /\ \A r \in (p + 1)..(q - 1) : DepthBetween(in, p, r) > 0}

\* NestedDelimiters::recover has returned.
NestedReturned == strategy = "nested" /\ pc = "strategy_ret"

\* C11: started at an open token whose matching close exists, nested
\* recovery succeeds, stops right after that close, and yields the default
\* output with no alternative diagnostic; and it succeeds only so.
C11_NestedBalanced ==
    NestedReturned =>
        /\ MatchEnds(input, entry) # {} =>
              /\ sret.ok
              /\ cursor \in MatchEnds(input, entry)
              /\ sret.out = Some(DefaultOutput)
              /\ sret.alt = None
        /\ sret.ok =>
              /\ entry < Len(input) /\ input[entry + 1] = Open
              /\ cursor \in MatchEnds(input, entry)

\* C11 witness: ( ( ) ) from offset 0 is recovered with all four consumed.
C11_Witness ==
    /\ NestedReturned /\ sret.ok
    /\ input = <<Open, Open, Close, Close>> /\ entry = 0
    /\ cursor = Len(input)
    /\ first.end > entry

\* C12: a failed nested recovery returns the original fatal diagnostic,
\* position and content unchanged, and the failed parser was not run again.
C12_NestedFailureKeepsFatal ==
    (NestedReturned /\ ~sret.ok) =>
        /\ sret.err = a_err
        /\ sret.err = first.r.err
        /\ tried = {} /\ retry = NoOutcome /\ skipped = {}

\* C12 witness: recovery fails at the end of input inside an open delimiter,
\* after a scan that moved the cursor and recorded a diagnostic.
C12_Witness ==
    /\ NestedReturned /\ ~sret.ok
    /\ error # None /\ cursor = Len(input) /\ cursor > entry + 1
    /\ first.r.err[1].at # cursor

\* The stopping rule of the scan loop for one consumed token.
C18_StopRule ==
    (pc = "nested_loop" /\ cursor' > cursor) =>
        IF input[cursor + 1] \in {Open, Close}
        THEN /\ balance' = 0 => (pc' = "nested_after" /\ recovered')
             /\ balance' < 0 => (pc' = "nested_after" /\ ~recovered')
             /\ balance' > 0 => pc' = "nested_loop"
        ELSE /\ balance' = balance
             /\ balance = 0 =>
                   (pc' = "nested_after" /\ ~recovered' /\ cursor = entry)
             /\ balance # 0 => pc' = "nested_loop"

\* C18: after a consumed open or close the scan stops with success at
\* balance 0, stops with failure below 0 and goes on otherwise; any other
\* token at balance 0 fails at once, which happens on the first consumed
\* token only, so the balance is at least 1 between two iterations.
C18_NestedStopping ==
    /\ [][C18_StopRule]_vars
    /\ []((pc = "nested_loop" /\ cursor > entry) => balance >= 1)

\* C18 witness: the scan failed on a first token that is no delimiter of
\* the primary pair, here the open of another pair.
C18_Witness ==
    /\ strategy = "nested" /\ pc = "nested_after" /\ ~recovered
    /\ cursor = entry + 1 /\ balance = 0
    /\ input[cursor] = "[" /\ others # <<>>

\* C19: a successful nested recovery returns the passed-in list, then the
\* diagnostic of the scan if any, then the fatal diagnostic exactly when
\* that list is empty or the fatal one lies strictly before its last entry.
C19_NestedSuccessList ==
    (NestedReturned /\ sret.ok) =>
        LET scan == IF error = None THEN <<>> ELSE <<error[1]>>
            list == a_errors \o scan
            push == list = <<>> \/ a_err[1].at < list[Len(list)].at
        IN  /\ a_errors = first.r.errs
            /\ sret.errs = IF push THEN list \o <<a_err[1]>> ELSE list

\* C19 witness: a success with a passed-in diagnostic, a scan diagnostic
\* and the fatal one appended after both.
C19_Witness ==
    /\ NestedReturned /\ sret.ok
    /\ a_errors # <<>> /\ error # None
    /\ sret.errs = a_errors \o <<error[1], a_err[1]>>

\* A success where the fatal diagnostic was left out of the list.
C19_WitnessOmitted ==
    /\ NestedReturned /\ sret.ok
    /\ error # None /\ sret.errs = a_errors \o <<error[1]>>

(* ------------------------- claims on parse ---------------------------- *)

\* C13: parse_recovery never returns an empty list with no output, so the
\* expect of parse never fires.
C13_ExpectNeverFires ==
    /\ pc \in {"pr_done", "done"} => ~(pr.errors = <<>> /\ pr.out = None)
    /\ presult.kind # "panic"

\* C13 witness: parse has returned Err for a pair without output whose
\* list holds the fatal diagnostic alone, after a recovery that failed.
C13_Witness ==
    /\ pc = "done" /\ presult.kind = "err"
    /\ pr.out = None /\ Len(pr.errors) = 1
    /\ StrategyInvoked

\* C20: a patched success of either strategy lists the original fatal
\* diagnostic or a diagnostic recorded by the same recovery scan.
C20_SuccessReportsFailure ==
    (pc = "strategy_ret" /\ sret.ok) =>
        \E i \in 1..Len(sret.errs) :
            \/ sret.errs[i] = a_err[1]
            \/ error # None /\ sret.errs[i] = error[1]

(* ------------------------ claims on repeated -------------------------- *)

\* What the end of one iteration of the repetition does.
C17_IterationEnd ==
    (pc = "ret" /\ rep.on /\ ~rep.done /\ rep' # rep) =>
        IF res.ok
        THEN /\ Len(rep'.outputs) = Len(rep.outputs) + 1
             /\ ~rep'.done /\ pc' = "rep_loop"
             /\ cursor' = cursor /\ cursor > rep.pre
        ELSE /\ rep'.done /\ rep'.outputs = rep.outputs
             /\ res'.ok /\ res'.out = Some(rep.outputs)
             /\ cursor' = rep.pre

\* The outputs are the matches made so far, one after the other from the
\* start position when no recovery skips tokens between them.
C17_Matches ==
    rep.on =>
        /\ \A i \in 1..Len(rep.outputs) :
              /\ rep.start <= rep.outputs[i].from
              /\ rep.outputs[i].from < rep.outputs[i].to
              /\ rep.outputs[i].to <= rep.pre \/ (pc = "rep_loop" /\ i = Len(rep.outputs))
              /\ i > 1 => rep.outputs[i - 1].to <= rep.outputs[i].from
        /\ strategy = "none" =>
              /\ \A i \in 1..Len(rep.outputs) :
                    rep.outputs[i].from =
                        IF i = 1 THEN rep.start ELSE rep.outputs[i - 1].to
              /\ rep.done =>
                    cursor = IF rep.outputs = <<>> THEN rep.start
                             ELSE rep.outputs[Len(rep.outputs)].to

\* C17: over a sub-parser that consumes whenever it succeeds, repeated
\* terminates, returns one output per consecutive successful match from
\* the start position, and the failing iteration consumes no input.
C17_RepeatedTerminates ==
    /\ <>(pc = "done")
    /\ [][C17_IterationEnd]_vars
    /\ [](C17_Matches)

\* C17 witness: two matches, then an iteration that consumed a token before
\* it failed and was rolled back, with input left over.
C17_Witness ==
    /\ pc = "done" /\ rep.done /\ parser = "advancing"
    /\ Len(rep.outputs) = 2
    /\ first.end > rep.pre /\ cursor = rep.pre /\ cursor < Len(input)

\* parse_recovery has returned for the digit-sequence grammar with
\* skip_then_retry_until attached, repeated over "12a34".
C16_Parsed ==
    /\ pc \in {"pr_done", "done"}
    /\ rep.on /\ parser = "digits" /\ strategy = "skip"
    /\ input = Scenario12a34

\* The two digit sequences of "12a34".
Seq12 == [from |-> 0, to |-> 2]

Seq34 == [from |-> 3, to |-> 5]

\* C16 as stated: with 'a' the sentinel, "12a34" is recovered into "12" and
\* "34" with exactly one recovered diagnostic, at index 2.
C16_RecoversPastSentinel ==
    (C16_Parsed /\ sentinels = {"a"}) =>
        /\ \E i, j \in 1..Len(pr.out[1]) :
              pr.out[1][i] = Seq12 /\ pr.out[1][j] = Seq34
        /\ Len(res.errs) = 1 /\ res.errs[1].at = 2
        /\ Len(pr.errors) = 1

\* C16: over "12a34" the recovery gives up at once when 'a' is a sentinel,
\* leaving "12" alone and no diagnostic; with no sentinel 'a' it skips 'a',
\* and the output is "12", "34" with one recovered diagnostic, at index 2.
C16_ScenarioOutcome ==
    C16_Parsed =>
        IF "a" \in sentinels
        THEN /\ pr.out = Some(<<Seq12>>)
             /\ res.errs = <<>> /\ pr.errors = <<>>
             /\ cursor = 2
        ELSE /\ pr.out = Some(<<Seq12, Seq34>>)
             /\ res.errs = <<LocatedAt(2, {<<"fatal", 2>>})>>
             /\ Len(pr.errors) = 1
             /\ cursor = 5

\* C16 witness: parse over "12a34" with 'a' the sentinel has returned "12"
\* alone, the recovery at index 2 having given up without a skip.
C16_Witness ==
    /\ C16_Parsed /\ sentinels = {"a"} /\ pc = "done"
    /\ presult.kind = "ok" /\ presult.out = Some(<<Seq12>>)
    /\ a_err = Some(LocatedAt(2, {<<"fatal", 2>>})) /\ skipped = {}

\* The same parse with no sentinel: both sequences, one diagnostic.
C16_WitnessRecovered ==
    /\ C16_Parsed /\ sentinels = {} /\ pc = "done"
    /\ pr.out = Some(<<Seq12, Seq34>>) /\ Len(pr.errors) = 1

(* ---------------------- claims on BoxedParser -------------------------- *)

\* parse_inner of parser p run to its return on a fresh stream over `in`,
\* by itself.
RECURSIVE RunToEnd(_, _)
RunToEnd(p, run) ==
    IF run.pc # "scan" THEN run ELSE RunToEnd(p, StepOf(p, run))

Alone(p, in) == RunToEnd(p, [IdleRun EXCEPT !.input = in, !.pc = "scan"])

\* The parse r has returned what the parser as constructed returns alone.
SameAsAlone(r) ==
    /\ runs[r].res = Alone(built[1], runs[r].input).res
    /\ runs[r].cursor = Alone(built[1], runs[r].input).cursor

\* C14: a parse through the boxed handle or any clone of it returns the
\* outcome and leaves the cursor where the wrapped parser does, and every
\* handle points to the one allocation, which holds the parser unaltered.
C14_BoxedEquivalent ==
    /\ \A r \in DOMAIN runs :
          (runs[r].pc = "ret" /\ runs[r].via > 0) => SameAsAlone(r)
    /\ heap # <<>> =>
          /\ Len(heap) = 1 /\ heap[1].value = built[1]
          /\ heap[1].strong = Len(handles)
          /\ \A h \in 1..Len(handles) : handles[h] = 1

\* C14 witness: a parse through the first handle and one through its clone
\* have both matched the same input.
C14_Witness ==
    /\ Len(handles) = 2 /\ runs # <<>>
    /\ runs[1].pc = "ret" /\ runs[1].via = 1
    /\ runs[2].pc = "ret" /\ runs[2].via = 2
    /\ runs[1].input = runs[2].input /\ Len(runs[1].input) = 2
    /\ runs[1].res.ok

\* A step of one parse leaves every other parse and the parser alone.
C15_StepIsLocal ==
    \A r \in DOMAIN runs :
        (runs[r].pc = "scan" /\ runs'[r] # runs[r]) =>
            /\ \A q \in DOMAIN runs : q # r => runs'[q] = runs[q]
            /\ built' = built /\ direct' = direct
            /\ heap' = heap /\ handles' = handles

\* C15: two parses through one parser value, each on its own stream and
\* interleaved at will, return what parse_inner returns alone; no step
\* touches the other parse and none changes the parser.
C15_InterleavedParses ==
    /\ [](\A r \in DOMAIN runs : runs[r].pc = "ret" => SameAsAlone(r))
    /\ [][C15_StepIsLocal]_vars

\* C15 witness: two parses through the same handle took steps while the
\* other was under way; one matched, the other failed.
C15_Witness ==
    /\ runs # <<>>
    /\ runs[1].pc = "ret" /\ runs[2].pc = "ret"
    /\ runs[1].via = runs[2].via /\ runs[1].via > 0
    /\ runs[1].overlapped /\ runs[2].overlapped
    /\ runs[1].res.ok /\ ~runs[2].res.ok

(* -------------- claims on what the strategies keep -------------------- *)

\* Sequence a is a prefix of sequence b.
IsPrefix(a, b) ==
    Len(a) <= Len(b) /\ \A i \in 1..Len(a) : a[i] = b[i]

\* C21: the recovered list handed to recover is a prefix of the recovered
\* list of the outcome recover returns, for both strategies, on success and
\* on failure.
C21_PassedInKept ==
    pc = "strategy_ret" => IsPrefix(a_errors, sret.errs)

\* C22: in skip_then_retry_until a failed retry leaves the cursor where
\* that retry began, so the loop is re-entered one token further each time
\* and only the skipped tokens have been consumed.
C22_RetryAdvancesByOne ==
    (strategy = "skip" /\ pc \in {"skip_loop", "skip_retry"}) =>
        cursor = entry + Cardinality(skipped)

(* ------------- claims on the diagnostics of the scan ------------------ *)

\* The scan loop meets the end of input.
C23_AtEnd ==
    /\ pc = "nested_loop" /\ StreamNext(input, cursor).tok = None
    /\ pc' # pc

\* What the scan does there.
C23_EndStep ==
    C23_AtEnd =>
        /\ pc' = "nested_after" /\ ~recovered'
        /\ IF balance = 1 /\ error = None
           THEN error' = Some(LocatedAt(Len(input),
                              UnclosedDelimiter(Last(starts)[1], cursor, None)))
           ELSE error' = error

\* C23: at the end of input nested recovery fails; at balance 1 with no
\* diagnostic recorded before, one unclosed-delimiter diagnostic located at
\* the end of input and naming the pending open is recorded, and it is in
\* the list returned; at balance 0 or 2 and more nothing is recorded.
C23_EndOfInput ==
    /\ [][C23_EndStep]_vars
    /\ []((NestedReturned /\ error # None) =>
             \E i \in 1..Len(sret.errs) : sret.errs[i] = error[1])

\* C23 witness: a scan that ran into the end of input at balance 1 has
\* returned a failure whose list ends with the diagnostic naming the open
\* at the entry offset.
C23_Witness ==
    /\ NestedReturned /\ ~sret.ok /\ balance = 1
    /\ cursor = Len(input) /\ cursor > entry + 1
    /\ error = Some(LocatedAt(Len(input), UnclosedDelimiter(entry, cursor, None)))
    /\ sret.errs # <<>> /\ sret.errs[Len(sret.errs)] = error[1]

\* A scan that ran into the end of input at balance 2 recorded nothing.
C23_WitnessDeeper ==
    /\ NestedReturned /\ ~sret.ok /\ balance = 2
    /\ cursor = Len(input) /\ error = None

\* The token the scan loop is about to consume is the close of another
\* pair, that pair's balance goes below 0 with it, and the primary balance is 1.
C24_ForeignCloseNext ==
    /\ pc = "nested_loop" /\ cursor < Len(input) /\ balance = 1
    /\ \E i \in 1..Len(others) :
          /\ input[cursor + 1] = others[i][2]
          /\ balance_others[i] <= 0

\* What the scan does with a token outside the primary pair.
C24_OtherStep ==
    (pc = "nested_loop" /\ cursor < Len(input) /\ cursor' = cursor + 1
        /\ input[cursor + 1] \notin {Open, Close}) =>
        /\ balance' = balance
        /\ IF C24_ForeignCloseNext /\ error = None
           THEN error' = Some(LocatedAt(cursor,
                    UnclosedDelimiter(Last(starts)[1], cursor,
                                      Some(input[cursor + 1]))))
           ELSE error' = error
        /\ C24_ForeignCloseNext => pc' = "nested_loop"

\* C24: the close of another pair that takes that pair's balance below 0
\* at primary balance 1 records an unclosed-delimiter diagnostic at its
\* offset, naming the open on top of the stack; only the first is recorded,
\* so a recovery manufactures at most one diagnostic; the token leaves the
\* primary balance alone and the scan goes on.
C24_ForeignClose ==
    /\ [][C24_OtherStep]_vars
    /\ [][error # None => error' = error]_vars
    /\ [](NestedReturned =>
             Len(sret.errs) <= Len(a_errors) + (IF sret.ok THEN 2 ELSE 1))

\* C24 witness: two foreign closes were consumed at balance 1; the
\* diagnostic is the one of the first and names the open at the entry.
C24_Witness ==
    /\ strategy = "nested" /\ pc = "nested_loop" /\ others # <<>>
    /\ balance = 1 /\ balance_others[1] = -2
    /\ cursor = entry + 3
    /\ error = Some(LocatedAt(entry + 1,
                    UnclosedDelimiter(entry, entry + 1, Some("]"))))

\* The scan's locals are live: the loop runs or has just broken.
C25_Scanning == strategy = "nested" /\ pc \in {"nested_loop", "nested_after"}

\* C25 as stated: no pop-and-unwrap of an empty stack, no 'expected close,
\* found end' diagnostic, and the stack as high as the primary balance as
\* long as no diagnostic has been recorded.
C25_StackMatchesBalance ==
    /\ pc # "panic"
    /\ error # None => error[1].error # ExpectedInputFound(error[1].at)
    /\ (C25_Scanning /\ error = None) => Len(starts) = balance

\* C25: no pop-and-unwrap of an empty stack, no 'expected close, found end'
\* diagnostic, and, as long as no diagnostic has been recorded, the stack
\* as high as the primary balance wherever that balance is not negative
\* (a close consumed first leaves balance -1 over an empty stack).
C25_StackNeverEmptyPopped ==
    /\ pc # "panic"
    /\ error # None => error[1].error # ExpectedInputFound(error[1].at)
    /\ (C25_Scanning /\ error = None) =>
          Len(starts) = (IF balance < 0 THEN 0 ELSE balance)
    /\ (pc = "nested_loop" /\ error = None) => Len(starts) = balance

\* C25 witness: both diagnostics' preconditions met with an open pending:
\* the scan stands at balance 1 over a stack of one, two opens and a close
\* consumed, before a foreign close or the end of input.
C25_Witness ==
    /\ strategy = "nested" /\ pc = "nested_loop" /\ error = None
    /\ balance = 1 /\ starts = <<entry>> /\ cursor = entry + 3
    /\ StreamNext(input, cursor).tok \in {None, Some("]")}

\* A close consumed first: balance -1, nothing recorded, the stack empty.
C25_WitnessNegative ==
    /\ strategy = "nested" /\ pc = "nested_after" /\ error = None
    /\ balance = -1 /\ starts = <<>> /\ cursor = entry + 1

\* C26: a patched success of either strategy has a non-empty recovered
\* list; so once the strategy of an outermost recover_with was invoked,
\* parse never returns an output, while parse_recovery returns the patched
\* output together with at least one diagnostic.
C26_PatchedSuccessReported ==
    /\ (pc = "strategy_ret" /\ sret.ok) => sret.errs # <<>>
    /\ (pc = "done" /\ StrategyInvoked) => presult.kind = "err"
    /\ (pc \in {"pr_done", "done"} /\ StrategyInvoked /\ sret.ok) =>
          pr.out = sret.out /\ pr.out # None /\ Len(pr.errors) >= 1

\* C26 witness: nested recovery patched the parse; parse_recovery returned
\* the default output with one diagnostic and parse returned Err.
C26_Witness ==
    /\ pc = "done" /\ strategy = "nested" /\ StrategyInvoked /\ sret.ok
    /\ pr.out = Some(DefaultOutput) /\ Len(pr.errors) = 1
    /\ presult.kind = "err" /\ presult.out = None

\* Where a scan that looks at the open and close tokens alone stops, from
\* offset c at balance bal, and whether it stops with success.
RECURSIVE ScanStop(_, _, _)
ScanStop(in, c, bal) ==
    IF c >= Len(in) THEN [ok |-> FALSE, cursor |-> c]
    ELSE LET t == in[c + 1]
             b == IF t = Open THEN bal + 1
                  ELSE IF t = Close THEN bal - 1 ELSE bal
         IN  IF t \in {Open, Close}
             THEN IF b = 0 THEN [ok |-> TRUE, cursor |-> c + 1]
                  ELSE IF b < 0 THEN [ok |-> FALSE, cursor |-> c + 1]
                  ELSE ScanStop(in, c + 1, b)
             ELSE IF bal = 0 THEN [ok |-> FALSE, cursor |-> c + 1]
                  ELSE ScanStop(in, c + 1, bal)

\* C27: success or failure of nested recovery, the offset where it stops
\* and the output it manufactures are those of a scan that knows the open
\* and the close token only, whatever other_pairs is; the other pairs show
\* in the diagnostics of the recovered list alone.
C27_OthersDoNotDecide ==
    NestedReturned =>
        /\ sret.ok = ScanStop(input, entry, 0).ok
        /\ cursor = ScanStop(input, entry, 0).cursor
        /\ sret.out = (IF sret.ok THEN Some(DefaultOutput) ELSE None)
        /\ sret.alt = None

\* C27 witness: with another pair given, a foreign close was recorded in a
\* scan that went on to the matching close and succeeded.
C27_Witness ==
    /\ NestedReturned /\ sret.ok /\ others # <<>>
    /\ error # None /\ error[1].at < cursor - 1
    /\ balance_others[1] < 0

\* The same input scanned with no other pair: same stop, nothing recorded.
C27_WitnessNoOthers ==
    /\ NestedReturned /\ sret.ok /\ others = <<>>
    /\ error = None /\ \E i \in entry + 2..cursor - 1 : input[i] = "]"

====
